---- MODULE Spec2Model ----
(***************************************************************************)
(* tracepack: contextual logger on AsyncLocalStorage (src/logger.js).       *)
(*                                                                         *)
(* The model has three layers:                                             *)
(*   - JavaScript values and the JSON text the logger produces, as data;   *)
(*   - the pure pipeline of emit (draft entry, custom merge with the       *)
(*     reserved-field filter, safeStringify, fallback, dispatch);          *)
(*   - the state machine: the module-level configuration, the global       *)
(*     console object, the heap of context records bound to asynchronous   *)
(*     chains by AsyncLocalStorage, and one action per exported operation. *)
(***************************************************************************)
EXTENDS Integers, Sequences, FiniteSets, TLC

(***************************************************************************)
(* Bounds of the exploration.                                              *)
(***************************************************************************)
\* number of context records (store objects) that may be created in a run
MaxRec == 2
\* number of replaceConsole calls in a run
MaxInstall == 2
\* number of context records created while the console layer is explored
MaxConsoleRec == 1
\* log calls made while the contents of the destinations are kept
MaxCalls == 3

(***************************************************************************)
(* JavaScript values.  Every value is a record of the same shape so that   *)
(* any two values can be compared.  Objects handed to the logger by the    *)
(* caller live in the constant table ArgObjects and are referred to by     *)
(* name; an array carries its elements.                                    *)
(***************************************************************************)
Str(s) == [t |-> "string", v |-> s, items |-> <<>>]
Null == [t |-> "null", v |-> "", items |-> <<>>]
Undef == [t |-> "undefined", v |-> "", items |-> <<>>]
BigIntV == [t |-> "bigint", v |-> "10", items |-> <<>>]
Ref(o) == [t |-> "object", v |-> o, items |-> <<>>]
Arr(xs) == [t |-> "array", v |-> "", items |-> xs]
\* the object literal { args } built by a console adapter
ArgsObject(xs) == [t |-> "argsobject", v |-> "", items |-> xs]

\* an object with no own property
EmptyObj == [k \in {} |-> Null]

\* the order in which own properties are visited (JSON.stringify and
\* Object.entries visit in insertion order; the model fixes one order)
KeyOrder ==
  <<"0", "1", "ts", "level", "userId", "txId", "orderId", "invoiceId", "cart",
    "n", "self", "x", "args", "msg", "originalMsg">>

\* the left operand kept as it is, undefined or not
CoalesceKeep(a, b) == a

\* a ?? b
Coalesce(a, b) == IF a.t \in {"null", "undefined"} THEN b ELSE a

\* objects of the calling program that reach the logger as arguments:
\* props are the own enumerable properties, getterThrows says that reading
\* them raises, toStringThrows that conversion to a string raises
ArgObjects ==
  [ plain   |-> [props |-> ("cart" :> Str("c-1")),
                 getterThrows |-> FALSE, toStringThrows |-> FALSE],
    cyclic  |-> [props |-> ("self" :> Ref("cyclic")),
                 getterThrows |-> FALSE, toStringThrows |-> FALSE],
    loop    |-> [props |-> ("self" :> Ref("loop")),
                 getterThrows |-> FALSE, toStringThrows |-> FALSE],
    big     |-> [props |-> ("n" :> BigIntV),
                 getterThrows |-> FALSE, toStringThrows |-> FALSE],
    spoof   |-> [props |-> ("userId" :> Str("mallory") @@ "level" :> Str("error")),
                 getterThrows |-> FALSE, toStringThrows |-> FALSE],
    tsbig   |-> [props |-> ("ts" :> BigIntV),
                 getterThrows |-> FALSE, toStringThrows |-> FALSE],
    throwy  |-> [props |-> ("x" :> Str("1")),
                 getterThrows |-> TRUE, toStringThrows |-> TRUE],
    order   |-> [props |-> ("orderId" :> Str("d-9") @@ "cart" :> Str("c-2")),
                 getterThrows |-> FALSE, toStringThrows |-> FALSE],
    twice   |-> [props |-> ("cart" :> Ref("plain") @@ "x" :> Ref("plain")),
                 getterThrows |-> FALSE, toStringThrows |-> FALSE],
    wrap    |-> [props |-> ("cart" :> Ref("plain")),
                 getterThrows |-> FALSE, toStringThrows |-> FALSE],
    depths  |-> [props |-> ("cart" :> Ref("plain") @@ "x" :> Ref("wrap")),
                 getterThrows |-> FALSE, toStringThrows |-> FALSE] ]

ObjNames == DOMAIN ArgObjects

\* a reference to an object of the request table
ReqRef(o) == [t |-> "reqobject", v |-> o, items |-> <<>>]

\* an exception travelling up from an expression
Thrown == [t |-> "thrown", v |-> "TypeError", items |-> <<>>]

\* request objects as the application's earlier middleware left them, and
\* the objects they refer to: the own properties of each
RequestObjects ==
  [ full     |-> ("user" :> ReqRef("userAlex")),
    userAlex |-> ("id" :> Str("alex_123")),
    anon     |-> EmptyObj,
    nulluser |-> ("user" :> Null),
    noid     |-> ("user" :> ReqRef("userEmpty")),
    userEmpty |-> EmptyObj,
    nullid   |-> ("user" :> ReqRef("userNullId")),
    userNullId |-> ("id" :> Null),
    struser  |-> ("user" :> Str("bob")),
    authed   |-> ("auth" :> ReqRef("authInfo")),
    authInfo |-> ("userId" :> Str("u-9")),
    deep     |-> ("user" :> ReqRef("userDeep")),
    userDeep |-> ("profile" :> ReqRef("userAlex")) ]

(***************************************************************************)
(* JSON documents: what a written line parses to.                          *)
(***************************************************************************)
JStr(s) == [t |-> "string", v |-> s, props |-> EmptyObj, items |-> <<>>]
JNull == [t |-> "null", v |-> "", props |-> EmptyObj, items |-> <<>>]
JObj(p) == [t |-> "object", v |-> "", props |-> p, items |-> <<>>]
JArr(xs) == [t |-> "array", v |-> "", props |-> EmptyObj, items |-> xs]

CircularMarker == JStr("[Circular]")

Has(j, k) == k \in DOMAIN j.props
Field(j, k) == j.props[k]

(***************************************************************************)
(* String(value)                                                           *)
(***************************************************************************)
ToStringThrows(val) ==
  val.t = "object" /\ ArgObjects[val.v].toStringThrows

ToStr(val) ==
  CASE val.t = "string" -> val.v
    [] val.t = "null" -> "null"
    [] val.t = "undefined" -> "undefined"
    [] val.t = "bigint" -> val.v
    [] val.t = "object" -> "[object Object]"
    [] OTHER -> "<array>"

(***************************************************************************)
(* JSON.stringify, with and without the replacer of safeStringify.         *)
(*                                                                         *)
(* Walk(val, seen, safe) serializes one value.  seen is the set of objects *)
(* met so far.  With the replacer (safe) an object that is in seen becomes *)
(* the marker string and seen grows over the whole traversal (the WeakSet  *)
(* is never emptied); without it (plain JSON.stringify) seen is the stack  *)
(* of ancestors and meeting one of them raises.  A BigInt raises in both.  *)
(* The result says whether the call returned (ok), whether the value       *)
(* yields a property at all (present: undefined does not), the document,   *)
(* and the objects seen.                                                   *)
(***************************************************************************)
RECURSIVE Walk(_, _, _)
RECURSIVE WalkProps(_, _, _, _, _)
RECURSIVE WalkItems(_, _, _, _, _)

WalkProps(props, i, seen, safe, acc) ==
  IF i > Len(KeyOrder) THEN [ok |-> TRUE, present |-> TRUE, j |-> JObj(acc), seen |-> seen]
  ELSE IF KeyOrder[i] \notin DOMAIN props THEN WalkProps(props, i + 1, seen, safe, acc)
  ELSE LET r == Walk(props[KeyOrder[i]], seen, safe)
           nextSeen == IF safe THEN r.seen ELSE seen
       IN  IF ~r.ok THEN [ok |-> FALSE, present |-> FALSE, j |-> JNull, seen |-> seen]
           ELSE IF ~r.present THEN WalkProps(props, i + 1, nextSeen, safe, acc)
           ELSE WalkProps(props, i + 1, nextSeen, safe, (KeyOrder[i] :> r.j) @@ acc)

WalkItems(xs, i, seen, safe, acc) ==
  IF i > Len(xs) THEN [ok |-> TRUE, present |-> TRUE, j |-> JArr(acc), seen |-> seen]
  ELSE LET r == Walk(xs[i], seen, safe)
           nextSeen == IF safe THEN r.seen ELSE seen
       IN  IF ~r.ok THEN [ok |-> FALSE, present |-> FALSE, j |-> JNull, seen |-> seen]
           ELSE WalkItems(xs, i + 1, nextSeen, safe,
                          Append(acc, IF r.present THEN r.j ELSE JNull))

Walk(val, seen, safe) ==
  CASE val.t = "string" -> [ok |-> TRUE, present |-> TRUE, j |-> JStr(val.v), seen |-> seen]
    [] val.t = "null" -> [ok |-> TRUE, present |-> TRUE, j |-> JNull, seen |-> seen]
    [] val.t = "undefined" -> [ok |-> TRUE, present |-> FALSE, j |-> JNull, seen |-> seen]
    [] val.t = "bigint" -> [ok |-> FALSE, present |-> FALSE, j |-> JNull, seen |-> seen]
    [] val.t = "array" -> WalkItems(val.items, 1, seen, safe, <<>>)
    [] val.t = "argsobject" ->
         WalkProps(("args" :> Arr(val.items)), 1, seen, safe, EmptyObj)
    [] OTHER ->
         IF val.v \in seen
         THEN IF safe
              THEN [ok |-> TRUE, present |-> TRUE, j |-> CircularMarker, seen |-> seen]
              ELSE [ok |-> FALSE, present |-> FALSE, j |-> JNull, seen |-> seen]
         ELSE IF ArgObjects[val.v].getterThrows
              THEN [ok |-> FALSE, present |-> FALSE, j |-> JNull, seen |-> seen]
              ELSE WalkProps(ArgObjects[val.v].props, 1, seen \cup {val.v}, safe, EmptyObj)

\* JSON.stringify(obj) of a fresh object literal with the properties props
JSONStringify(props) == WalkProps(props, 1, {}, FALSE, EmptyObj)

\* safeStringify(obj): JSON.stringify with the WeakSet replacer
safeStringify(props) == WalkProps(props, 1, {}, TRUE, EmptyObj)

(***************************************************************************)
(* Module-level constants of logger.js.                                    *)
(***************************************************************************)
LOG_LEVELS == [debug |-> 0, info |-> 1, warn |-> 2, error |-> 3, none |-> 4]

RESERVED_FIELDS == {"ts", "level", "msg", "userId", "txId"}

\* the primitives of the runtime's console: where each one writes
Native(method) ==
  [kind |-> "native", name |-> method,
   stream |-> IF method \in {"warn", "error"} THEN "stderr" ELSE "stdout"]

\* the function replaceConsole installs for an entry point: calls emit(level)
Adapter(level) == [kind |-> "adapter", name |-> level, stream |-> ""]

ConsoleMethods == {"log", "info", "warn", "error", "debug"}

\* const originalConsole = { log: console.log, ... }, evaluated once when the
\* module is loaded
originalConsole == [m \in ConsoleMethods |-> Native(m)]

\* new Date().toISOString()
NowISO == Str("2025-01-15T10:23:01.000Z")

\* the name of a console level
LevelNames == {"debug", "info", "warn", "error"}

\* no file stream (logFileStream = null)
NoStream == [open |-> FALSE, path |-> ""]
StreamOn(p) == [open |-> TRUE, path |-> p]

\* the value of asyncContext.getStore() when no store is active
NoStore == 0

\* the object {} : a record with no userId, no txId and no custom
EmptyRecord ==
  [userId |-> Undef, txId |-> Undef, hasCustom |-> FALSE, custom |-> EmptyObj]

(***************************************************************************)
(* State.                                                                  *)
(***************************************************************************)
VARIABLES
  currentLevel,   \* let currentLevel: rank of the minimum level
  outputMode,     \* let outputMode
  logFileStream,  \* let logFileStream: NoStream or the stream of the last file
  console,        \* the global console object: entry point -> function
  heap,           \* the store objects created so far, by identity 1..Len(heap)
  origin,         \* per store object: how it was made, its first content and
                  \* the keys addContext has named on it since
  active,         \* the stores some running or scheduled continuation carries
  installs,       \* number of replaceConsole calls made
  crashed,        \* the process died of an unhandled 'error' event
  last,           \* the operation just executed and what it wrote
  destinations    \* what the file stream holds and has written, and what
                  \* the console has received, each in order

vars ==
  <<currentLevel, outputMode, logFileStream, console, heap, origin, active,
    installs, crashed, last, destinations>>

(***************************************************************************)
(* emit(level, message, data), as pure operators over the current state.   *)
(***************************************************************************)
\* the store kept in one module-level variable that every run() overwrites
getStoreGlobal(s) ==
  IF Len(heap) = 0 THEN EmptyRecord
  ELSE [userId |-> heap[Len(heap)].userId, txId |-> heap[Len(heap)].txId,
        hasCustom |-> heap[Len(heap)].hasCustom,
        custom |-> heap[Len(heap)].custom]

\* asyncContext.getStore() || {} for a continuation that carries store s
getStore(s) ==
  IF s = NoStore THEN EmptyRecord
  ELSE [userId |-> heap[s].userId, txId |-> heap[s].txId,
        hasCustom |-> heap[s].hasCustom, custom |-> heap[s].custom]

\* the record established for chain s (the empty record outside every chain)
ChainRecord(s) ==
  IF s = NoStore THEN EmptyRecord
  ELSE [userId |-> heap[s].userId, txId |-> heap[s].txId,
        hasCustom |-> heap[s].hasCustom, custom |-> heap[s].custom]

\* own properties of an array: its indices
ArrayProps(xs) ==
  [k \in {ToString(i - 1) : i \in 1..Len(xs)} |->
     xs[CHOOSE i \in 1..Len(xs) : ToString(i - 1) = k]]

\* ...data : reading the own properties of the argument (undefined takes
\* the default {}, null spreads to nothing)
SpreadThrows(data) == data.t = "object" /\ ArgObjects[data.v].getterThrows

SpreadOf(data) ==
  CASE data.t = "object" -> ArgObjects[data.v].props
    [] data.t = "array" -> ArrayProps(data.items)
    [] data.t = "argsobject" -> ("args" :> Arr(data.items))
    [] OTHER -> EmptyObj

\* const entry = { ts, level, userId, txId, ...data, msg: message }
DraftEntry(level, message, data, ctx) ==
  ("msg" :> message)
    @@ SpreadOf(data)
    @@ ("ts" :> NowISO @@ "level" :> Str(level)
        @@ "userId" :> Coalesce(ctx.userId, Null)
        @@ "txId" :> Coalesce(ctx.txId, Null))

\* the custom fields copied as they are (Object.assign(entry, ctx.custom))
CustomFieldsUnfiltered(ctx) ==
  IF ctx.hasCustom THEN ctx.custom ELSE EmptyObj

\* the custom fields that are copied into the entry: all but the reserved
CustomFields(ctx) ==
  IF ctx.hasCustom
  THEN [k \in (DOMAIN ctx.custom) \ RESERVED_FIELDS |-> ctx.custom[k]]
  ELSE EmptyObj

\* an entry where the fields of the call are written over the custom ones
EntryDataLast(level, message, data, ctx) ==
  LET draft == DraftEntry(level, message, data, ctx)
  IN  [k \in DOMAIN SpreadOf(data) \ RESERVED_FIELDS |-> draft[k]]
        @@ CustomFields(ctx) @@ draft

\* the entry that is serialized
Entry(level, message, data, ctx) ==
  CustomFields(ctx) @@ DraftEntry(level, message, data, ctx)

FailureNotice == "Failed to serialize log entry"

\* plain JSON.stringify of the entry, without the cycle replacer
StringifyNoReplacer(entry) == JSONStringify(entry)

\* output = safeStringify(entry)
StringifyEntry(entry) == safeStringify(entry)

\* the try/catch around safeStringify: the text of the line, or a raise
Output(level, message, data, ctx) ==
  LET entry == Entry(level, message, data, ctx)
      r == StringifyEntry(entry)
      fb == JSONStringify("ts" :> entry["ts"] @@ "level" :> Str("error")
                          @@ "msg" :> Str(FailureNotice)
                          @@ "originalMsg" :> Str(ToStr(message)))
  IN  IF r.ok THEN [raised |-> FALSE, fallback |-> FALSE, line |-> r.j]
      ELSE IF ToStringThrows(message) \/ ~fb.ok
           THEN [raised |-> TRUE, fallback |-> TRUE, line |-> JNull]
           ELSE [raised |-> FALSE, fallback |-> TRUE, line |-> fb.j]

\* the console function emit writes through, read from the live console
\* object instead of the saved primitives
ConsoleSinkLive(method) == console[method]

\* the console function emit writes through: originalConsole.error / warn / log
ConsoleSink(method) == originalConsole[method]

\* which primitive a level is written with
SinkMethod(level) ==
  IF level = "error" THEN "error" ELSE IF level = "warn" THEN "warn" ELSE "log"

\* the level gate that lets every call through
GatedNever(level) == FALSE

\* if (LOG_LEVELS[level] < currentLevel) return;
Gated(level) == LOG_LEVELS[level] < currentLevel

\* the file condition without the test of the output mode
ToFileStreamOnly == logFileStream.open

\* if (logFileStream && (outputMode === 'file' || outputMode === 'both'))
ToFile == logFileStream.open /\ outputMode \in {"file", "both"}

\* if (outputMode === 'console' || outputMode === 'both')
ToConsole == outputMode \in {"console", "both"}

NoWrites ==
  [gated |-> FALSE, raised |-> FALSE, fallback |-> FALSE,
   file |-> <<>>, con |-> <<>>]

\* everything one call of emit does, for a continuation carrying store s
emit(level, message, data, s) ==
  IF Gated(level) THEN [NoWrites EXCEPT !.gated = TRUE]
  ELSE IF SpreadThrows(data) THEN [NoWrites EXCEPT !.raised = TRUE]
  ELSE
    LET out == Output(level, message, data, getStore(s))
        sink == ConsoleSink(SinkMethod(level))
        toFile == ToFile
        toConsole == ToConsole
    IN  IF out.raised THEN [NoWrites EXCEPT !.raised = TRUE]
        ELSE [gated |-> FALSE,
              \* a sink that is itself an adapter re-enters emit without end
              raised |-> toConsole /\ sink.kind = "adapter",
              fallback |-> out.fallback,
              file |-> IF toFile
                       THEN <<[path |-> logFileStream.path, line |-> out.line,
                               newline |-> TRUE]>>
                       ELSE <<>>,
              con |-> IF toConsole /\ sink.kind = "native"
                      THEN <<[fn |-> sink.name, stream |-> sink.stream,
                              line |-> out.line]>>
                      ELSE <<>>]

(***************************************************************************)
(* Inputs of the operations.                                               *)
(***************************************************************************)
\* the ctx argument of withContext
Seeds ==
  { [userId |-> Str("alice"), txId |-> Str("tx-a"), hasCustom |-> FALSE,
     custom |-> EmptyObj],
    [userId |-> Undef, txId |-> Undef, hasCustom |-> FALSE,
     custom |-> EmptyObj] }

\* the ctx argument of withContext where the custom fields are explored
CustomSeeds ==
  { [userId |-> Str("alice"), txId |-> Str("tx-a"), hasCustom |-> FALSE,
     custom |-> EmptyObj] }

\* the ctx argument of withContext where the console layer is explored
ConsoleSeeds ==
  { [userId |-> Str("alice"), txId |-> Str("tx-a"), hasCustom |-> FALSE,
     custom |-> EmptyObj] }

\* options.userIdPath || 'user.id', as the segments split('.') yields
DefaultUserIdPath == <<"user", "id">>

\* seeds where nested chains are explored: a full identity, no property at
\* all, and custom fields alone
NestedSeeds ==
  { [userId |-> Str("alice"), txId |-> Str("tx-a"), hasCustom |-> FALSE,
     custom |-> EmptyObj],
    [userId |-> Undef, txId |-> Undef, hasCustom |-> FALSE,
     custom |-> EmptyObj],
    [userId |-> Undef, txId |-> Undef, hasCustom |-> TRUE,
     custom |-> ("invoiceId" :> Str("i-7"))] }

\* the fields given to the enclosing chain where nested chains are explored
NestedFields == { ("orderId" :> Str("o-1")) }

\* requests reaching the middleware: the request object, the configured
\* userIdPath and the value of the txIdHeader header
Requests ==
  { [obj |-> "full", path |-> DefaultUserIdPath, header |-> Str("abc-789")],
    [obj |-> "anon", path |-> DefaultUserIdPath, header |-> Undef] }

\* requests where the establishment of a request is explored: also one
\* whose header is present with an empty value
EstablishRequests ==
  Requests \cup
    { [obj |-> "full", path |-> DefaultUserIdPath, header |-> Str("")] }

\* the userIdPath values explored: the default, another two-segment path
\* and a three-segment one
UserIdPaths ==
  { DefaultUserIdPath, <<"auth", "userId">>, <<"user", "profile", "id">> }

\* requests where the resolution of the identity is explored: every
\* request object with every path
ResolveRequests ==
  { [obj |-> o, path |-> p, header |-> Str("abc-789")] :
      o \in {"full", "anon", "nulluser", "noid", "nullid", "struser",
              "authed", "deep"},
      p \in UserIdPaths }

\* seeds where the establishment is explored: also one without txId
EstablishSeeds ==
  Seeds \cup { [userId |-> Str("alice"), txId |-> Undef, hasCustom |-> FALSE,
                custom |-> EmptyObj] }

\* what the function given to withContext does: it returns a value, returns
\* a pending promise, or throws
Returned == [kind |-> "returns", v |-> "done"]

FnOutcomes ==
  { Returned, [kind |-> "promise", v |-> "pending"], [kind |-> "throws", v |-> "boom"] }

\* the fields argument of addContext: business fields, and fields named
\* like the reserved ones
BusinessFields ==
  { ("orderId" :> Str("o-1")),
    ("orderId" :> Str("o-2") @@ "invoiceId" :> Str("i-7")) }

\* fields where the record of a chain is explored: an order with keys
\* named like the identity, and a later order
RecordFields ==
  { ("orderId" :> Str("o-1") @@ "userId" :> Str("mallory")
       @@ "txId" :> Str("tx-evil")),
    ("orderId" :> Str("o-2")) }

\* structured data where the merge of the custom fields with the fields of
\* the call is explored: an object with an orderId, and one without
MergeData == { Ref("order"), Ref("plain") }

\* structured data without a cycle: an object that holds one object under
\* two keys, one that holds it at two depths, and one that holds it once
SharedData == { Ref("twice"), Ref("depths"), Ref("wrap") }

SpoofFields ==
  { ("msg" :> Str("spoof") @@ "level" :> Str("error") @@ "ts" :> Str("1970")
       @@ "userId" :> Str("mallory") @@ "txId" :> Str("tx-evil")) }

\* structured data of a log call: none, or a plain serializable object
PlainData == { Undef, Ref("plain") }

\* messages of a log call
Messages == { Str("real") }

\* levels of the log calls of a chain: one below and one at the default
\* minimum level
ChainLevels == { "debug", "info" }

\* fields whose value holds a reference cycle
CyclicFields == { ("cart" :> Ref("loop")) }

\* structured data with a reference cycle
CyclicData == { Ref("cyclic") }

\* the options argument of replaceConsole ("" stands for an omitted option)
OptionLevels == {"", "debug", "warn", "error", "none"}

AnyOptions ==
  [level : OptionLevels \cup {"verbose"}, output : {"", "console", "file", "both"},
   filePath : {"", "logs/app.log"}]

\* options that respect the documented contract: a filePath whenever the
\* output is file or both, and a level of the documented list
ValidOptions ==
  { o \in AnyOptions :
      /\ o.level \in OptionLevels
      /\ o.output \in {"file", "both"} => o.filePath # "" }

\* options where the order of the lines is explored: every output, with a
\* file path
OrderOptions ==
  { o \in ValidOptions : o.level = "" /\ o.filePath # "" /\ o.output # "" }

\* argument lists of a console call: message alone, message and an object,
\* message and a cyclic object, message and one more positional argument
OrdinaryArgs ==
  { <<Str("real")>>, <<Str("real"), Ref("plain")>>, <<Str("real"), Ref("cyclic")>>,
    <<Str("real"), Str("extra")>> }

\* argument lists that stress the adapter and the serializer
HostileArgs ==
  { <<>>, <<Ref("throwy")>>, <<Str("real"), Ref("throwy")>>,
    <<Str("real"), Ref("big")>>, <<Str("real"), Ref("tsbig")>>,
    <<Str("real"), Ref("spoof")>>, <<Str("real"), Null>>,
    <<Str("real"), Arr(<<Str("a"), Str("b")>>)>> }

\* randomUUID(): a value no earlier call returned
randomUUID == "uuid-" \o ToString(Len(heap) + 1)

\* the stores a piece of code can be running under: none (code outside
\* every context) or one that still has continuations
Callers == {NoStore} \cup active

\* the record of an operation that is not a log call
NoOptions == [level |-> "", output |-> "", filePath |-> ""]

\* no request, no function outcome
NoRequest == [obj |-> "", path |-> <<>>, header |-> Undef]
NoOutcome == [kind |-> "none", v |-> ""]

Op(name, s, target) ==
  [op |-> name, store |-> s, target |-> target, level |-> "", message |-> Undef,
   data |-> Undef, res |-> NoWrites, header |-> Undef, fields |-> EmptyObj,
   opts |-> NoOptions, req |-> NoRequest, seed |-> EmptyRecord,
   fn |-> NoOutcome, ret |-> NoOutcome, args |-> <<>>]

(***************************************************************************)
(* Construction: the state when the module has been loaded.                *)
(***************************************************************************)
\* destinations with nothing in them; kept says whether their contents are
\* followed (they are where the order of the lines is studied; elsewhere
\* last.res holds what a call handed over)
NoDestinations ==
  [kept |-> FALSE, calls |-> 0, pending |-> <<>>, disk |-> <<>>, con |-> <<>>]

Loaded ==
  /\ currentLevel = LOG_LEVELS.info
  /\ outputMode = "console"
  /\ logFileStream = NoStream
  /\ console = [m \in ConsoleMethods |-> Native(m)]
  /\ heap = <<>>
  /\ origin = <<>>
  /\ active = {}
  /\ installs = 0
  /\ crashed = FALSE
  /\ last = Op("load", NoStore, 0)

Init == Loaded /\ destinations = NoDestinations

\* the same state, the contents of the destinations being followed
InitOrder == Loaded /\ destinations = [NoDestinations EXCEPT !.kept = TRUE]

config == <<currentLevel, outputMode, logFileStream, console, installs>>

(***************************************************************************)
(* Context lifecycle.                                                      *)
(***************************************************************************)
\* asyncContext.run(store, fn): a new store object is bound to fn and to
\* everything fn schedules; the caller keeps the store it had
Run(store, how) ==
  /\ heap' = Append(heap, store)
  /\ origin' = Append(origin, [how |-> how, first |-> store, touched |-> {}])
  /\ active' = active \cup {Len(heap) + 1}

\* a store whose txId is always generated, whatever the seed holds
StoreOfFreshTx(seed) ==
  [userId |-> Coalesce(seed.userId, Null), txId |-> Str(randomUUID),
   hasCustom |-> TRUE,
   custom |-> IF seed.hasCustom THEN seed.custom ELSE EmptyObj]

\* const store = { userId: ctx.userId ?? null, txId: ctx.txId ?? randomUUID(),
\*                 custom: ctx.custom ?? {} }
StoreOf(seed) ==
  [userId |-> Coalesce(seed.userId, Null),
   txId |-> Coalesce(seed.txId, Str(randomUUID)),
   hasCustom |-> TRUE,
   custom |-> IF seed.hasCustom THEN seed.custom ELSE EmptyObj]

\* withContext filling what the seed leaves out from the store of the
\* caller
WithContextInheriting(s, seed, fn) ==
  LET outer == getStore(s)
      filled == [userId |-> Coalesce(seed.userId, outer.userId),
                 txId |-> Coalesce(seed.txId, outer.txId),
                 hasCustom |-> TRUE,
                 custom |-> (IF seed.hasCustom THEN seed.custom ELSE EmptyObj)
                              @@ outer.custom]
  IN  /\ ~crashed
      /\ Len(heap) < MaxRec
      /\ Run(StoreOf(filled), "withContext")
      /\ last' = [Op("withContext", s, Len(heap) + 1) EXCEPT !.seed = seed,
                                                           !.fn = fn, !.ret = fn]
      /\ UNCHANGED <<config, destinations, crashed>>

\* withContext(ctx, fn), called by code running under store s; fn is what
\* the function does, and return asyncContext.run(store, fn) hands that
\* outcome to the caller as it is
WithContext(s, seed, fn) ==
  /\ ~crashed
  /\ Len(heap) < MaxRec
  /\ Run(StoreOf(seed), "withContext")
  /\ last' = [Op("withContext", s, Len(heap) + 1) EXCEPT !.seed = seed,
                                                       !.fn = fn, !.ret = fn]
  /\ UNCHANGED <<config, destinations, crashed>>

\* a correlation id that is generated for every request
ResolveTxIdFresh(req) == Str(randomUUID)

\* const txId = req.get(txIdHeader) || generateTxId()
ResolveTxId(req) ==
  IF req.header.t = "string" /\ req.header.v # ""
  THEN req.header ELSE Str(randomUUID)

\* obj[key]: reading a property of null or undefined raises
PathGetStrict(obj, key) ==
  IF obj.t \in {"null", "undefined"} THEN Thrown
  ELSE IF obj.t = "reqobject" /\ key \in DOMAIN RequestObjects[obj.v]
       THEN RequestObjects[obj.v][key]
       ELSE Undef

\* obj?.[key]: undefined when obj is null or undefined, else the property
\* (undefined when there is none, as for a string and these keys)
PathGet(obj, key) ==
  IF obj.t \in {"null", "undefined"} THEN Undef
  ELSE IF obj.t = "reqobject" /\ key \in DOMAIN RequestObjects[obj.v]
       THEN RequestObjects[obj.v][key]
       ELSE Undef

\* segments.reduce((obj, key) => obj?.[key], req), from segment i on; an
\* exception ends the reduction
RECURSIVE PathReduce(_, _, _)
PathReduce(path, i, obj) ==
  IF i > Len(path) \/ obj.t = "thrown" THEN obj
  ELSE PathReduce(path, i + 1, PathGet(obj, path[i]))

\* userIdPath.split('.').reduce(..., req) ?? null
ResolveUserId(req) ==
  LET found == PathReduce(req.path, 1, ReqRef(req.obj))
  IN  IF found.t = "thrown" THEN found ELSE Coalesce(found, Null)

\* the handler returned by loggerMiddleware(), called for request req; an
\* exception raised while the identity is read leaves the handler before
\* next is run
Middleware(s, req) ==
  LET userId == ResolveUserId(req)
      txId == ResolveTxId(req)
  IN  /\ ~crashed
      /\ Len(heap) < MaxRec
      /\ IF userId.t = "thrown"
         THEN /\ UNCHANGED <<heap, origin, active>>
              /\ last' = [Op("middleware", s, 0) EXCEPT
                            !.req = req,
                            !.res = [NoWrites EXCEPT !.raised = TRUE]]
         ELSE /\ Run([userId |-> userId, txId |-> txId, hasCustom |-> TRUE,
                      custom |-> EmptyObj], "middleware")
              /\ last' = [Op("middleware", s, Len(heap) + 1) EXCEPT
                            !.header = txId, !.req = req]
      /\ UNCHANGED <<config, destinations, crashed>>

\* the merge with the two spreads exchanged: { ...fields, ...store.custom }
MergeOldWins(custom, fields) == custom @@ fields

\* { ...store.custom, ...fields }
MergeCustom(custom, fields) == fields @@ custom

\* addContext writing to the store created last when the caller has none
AddContextGlobal(s, fields) ==
  LET t == IF s = NoStore THEN Len(heap) ELSE s
  IN  /\ ~crashed
      /\ IF t = 0
         THEN UNCHANGED heap
         ELSE heap' = [heap EXCEPT ![t].custom = MergeCustom(heap[t].custom, fields),
                                   ![t].hasCustom = TRUE]
      /\ IF s = NoStore
         THEN UNCHANGED origin
         ELSE origin' = [origin EXCEPT ![s].touched = @ \cup DOMAIN fields]
      /\ last' = [Op("addContext", s, s) EXCEPT !.fields = fields]
      /\ UNCHANGED <<config, destinations, active, crashed>>

\* addContext merging the fields into a copy of the store, which the
\* calling continuation alone would hold
AddContextOnCopy(s, fields) ==
  /\ ~crashed
  /\ IF s = NoStore
     THEN UNCHANGED origin
     ELSE origin' = [origin EXCEPT ![s].touched = @ \cup DOMAIN fields]
  /\ last' = [Op("addContext", s, s) EXCEPT !.fields = fields]
  /\ UNCHANGED <<config, destinations, heap, active, crashed>>

\* addContext writing into the custom object where it is, so that every
\* object holding the same custom object (the store and its shallow
\* copies) shows the fields
AddContextInPlace(s, fields) ==
  LET shares(t) == /\ heap[t].hasCustom
                   /\ heap[t].txId = heap[s].txId
                   /\ heap[t].custom = heap[s].custom
  IN  /\ ~crashed
      /\ IF s = NoStore
         THEN UNCHANGED <<heap, origin>>
         ELSE /\ heap' = [t \in 1..Len(heap) |->
                           IF t = s \/ shares(t)
                           THEN [heap[t] EXCEPT
                                   !.custom = MergeCustom(heap[t].custom, fields),
                                   !.hasCustom = TRUE]
                           ELSE heap[t]]
              /\ origin' = [origin EXCEPT ![s].touched = @ \cup DOMAIN fields]
      /\ last' = [Op("addContext", s, s) EXCEPT !.fields = fields]
      /\ UNCHANGED <<config, destinations, active, crashed>>

\* addContext copying the fields onto the store itself
AddContextOntoStore(s, fields) ==
  LET put(k, old) == IF k \in DOMAIN fields THEN fields[k] ELSE old
  IN  /\ ~crashed
      /\ IF s = NoStore
         THEN UNCHANGED <<heap, origin>>
         ELSE /\ heap' = [heap EXCEPT
                          ![s].userId = put("userId", @),
                          ![s].txId = put("txId", @),
                          ![s].custom = MergeCustom(heap[s].custom, fields),
                          ![s].hasCustom = TRUE]
              /\ origin' = [origin EXCEPT ![s].touched = @ \cup DOMAIN fields]
      /\ last' = [Op("addContext", s, s) EXCEPT !.fields = fields]
      /\ UNCHANGED <<config, destinations, active, crashed>>

\* log.addContext(fields)
AddContext(s, fields) ==
  /\ ~crashed
  /\ IF s = NoStore
     THEN UNCHANGED <<heap, origin>>
     ELSE /\ heap' = [heap EXCEPT ![s].custom = MergeCustom(heap[s].custom, fields),
                                  ![s].hasCustom = TRUE]
          /\ origin' = [origin EXCEPT ![s].touched = @ \cup DOMAIN fields]
  /\ last' = [Op("addContext", s, s) EXCEPT !.fields = fields]
  /\ UNCHANGED <<config, destinations, active, crashed>>

\* a copy that keeps the identity and leaves the custom fields behind
SpreadIdentityOnly(s) ==
  [getStore(s) EXCEPT !.hasCustom = FALSE, !.custom = EmptyObj]

\* { ...asyncContext.getStore() } : the own properties of the current store
SpreadStore(s) == getStore(s)

\* captureContext(): a new object with the properties of the current store
captureContext(s) ==
  /\ ~crashed
  /\ Len(heap) < MaxRec
  /\ heap' = Append(heap, SpreadStore(s))
  /\ origin' = Append(origin, [how |-> "captured", first |-> ChainRecord(s),
                               touched |-> {}])
  /\ last' = Op("captureContext", s, Len(heap) + 1)
  /\ UNCHANGED <<config, destinations, active, crashed>>

\* a restore that swaps the store of the calling chain for the captured
\* object instead of binding the object to fn alone
runWithCapturedContextEntering(s, r) ==
  /\ ~crashed
  /\ r \in 1..Len(heap)
  /\ origin[r].how = "captured"
  /\ active' = (active \ {s}) \cup {r}
  /\ last' = Op("runWithCapturedContext", s, r)
  /\ UNCHANGED <<config, destinations, heap, origin, crashed>>

\* runWithCapturedContext(captured, fn), called by code running under s
runWithCapturedContext(s, r) ==
  /\ ~crashed
  /\ r \in 1..Len(heap)
  /\ origin[r].how = "captured"
  /\ active' = active \cup {r}
  /\ last' = Op("runWithCapturedContext", s, r)
  /\ UNCHANGED <<config, destinations, heap, origin, crashed>>

\* the last continuation that carries store r has run
ChainEnds(r) ==
  /\ ~crashed
  /\ r \in active
  /\ active' = active \ {r}
  /\ last' = Op("chainEnds", r, r)
  /\ UNCHANGED <<config, destinations, heap, origin, crashed>>

(***************************************************************************)
(* Logging.                                                                *)
(***************************************************************************)
\* the lines of one call, marked with the number of the call
Stamp(n, writes) == [i \in 1..Len(writes) |-> [n |-> n, line |-> writes[i].line]]

\* logFileStream.write(output + '\n') puts the line behind those the stream
\* has not written yet and returns; originalConsole.log / warn / error
\* (output) writes the line
Deliver(res) ==
  IF ~destinations.kept THEN UNCHANGED destinations
  ELSE /\ destinations.calls < MaxCalls
       /\ destinations' =
            [destinations EXCEPT
               !.calls = @ + 1,
               !.pending = @ \o Stamp(destinations.calls + 1, res.file),
               !.con = @ \o Stamp(destinations.calls + 1, res.con)]

\* log.debug / log.info / log.warn / log.error (msg, data)
Log(s, level, message, data) ==
  /\ ~crashed
  /\ last' = [Op("log", s, s) EXCEPT !.level = level, !.message = message,
                                    !.data = data,
                                    !.res = emit(level, message, data, s)]
  /\ Deliver(emit(level, message, data, s))
  /\ UNCHANGED <<config, heap, origin, active, crashed>>

\* a stream that writes whichever of the lines it holds
FileWrittenAnyOrder ==
  /\ ~crashed
  /\ \E i \in 1..Len(destinations.pending) :
       destinations' =
         [destinations EXCEPT
            !.pending = SubSeq(@, 1, i - 1) \o SubSeq(@, i + 1, Len(@)),
            !.disk = Append(@, destinations.pending[i])]
  /\ last' = Op("fileWritten", NoStore, 0)
  /\ UNCHANGED <<config, heap, origin, active, crashed>>

\* the file stream writes the oldest line it holds (a Writable writes its
\* chunks in the order of the write calls)
FileWritten ==
  /\ ~crashed
  /\ destinations.pending # <<>>
  /\ destinations' =
       [destinations EXCEPT !.pending = Tail(@),
                            !.disk = Append(@, Head(destinations.pending))]
  /\ last' = Op("fileWritten", NoStore, 0)
  /\ UNCHANGED <<config, heap, origin, active, crashed>>

(***************************************************************************)
(* The interception layer.                                                 *)
(***************************************************************************)
\* path.resolve(filePath) of a relative path
resolve(p) == "/app/" \o p

\* LOG_LEVELS[level] ?? LOG_LEVELS.info, with the default level = 'info'
LevelOf(name) ==
  IF name \in DOMAIN LOG_LEVELS THEN LOG_LEVELS[name] ELSE LOG_LEVELS.info

\* replaceConsole(options)
replaceConsole(opts) ==
  LET output == IF opts.output = "" THEN "console" ELSE opts.output
  IN  /\ ~crashed
      /\ installs < MaxInstall
      /\ currentLevel' = LevelOf(opts.level)
      /\ outputMode' = output
      /\ logFileStream' = IF opts.filePath # "" /\ output \in {"file", "both"}
                          THEN StreamOn(resolve(opts.filePath))
                          ELSE logFileStream
      /\ console' = [log |-> Adapter("info"), info |-> Adapter("info"),
                     debug |-> Adapter("debug"), warn |-> Adapter("warn"),
                     error |-> Adapter("error")]
      /\ installs' = installs + 1
      /\ last' = [Op("replaceConsole", NoStore, 0) EXCEPT !.opts = opts]
      /\ UNCHANGED <<heap, origin, active, crashed, destinations>>

\* const msg = args.shift()
ShiftMsg(args) == IF Len(args) = 0 THEN Undef ELSE Head(args)

\* const data = args.length === 1 && typeof args[0] === 'object' ? args[0]
\*            : args.length > 0 ? { args } : undefined   (after the shift)
AdapterData(args) ==
  LET rest == IF Len(args) = 0 THEN <<>> ELSE Tail(args)
  IN  IF Len(rest) = 1 /\ rest[1].t \in {"object", "null", "array"} THEN rest[1]
      ELSE IF Len(rest) > 0 THEN ArgsObject(rest)
      ELSE Undef

\* console.log / info / debug / warn / error (...args) once intercepted,
\* called by code running under store s
ConsoleCall(s, method, args) ==
  LET f == console[method]
      msg == ShiftMsg(args)
      res == IF ToStringThrows(msg) THEN [NoWrites EXCEPT !.raised = TRUE]
             ELSE emit(f.name, Str(ToStr(msg)), AdapterData(args), s)
  IN  /\ ~crashed
      /\ f.kind = "adapter"
      /\ last' = [Op("console", s, s) EXCEPT !.level = f.name, !.message = msg,
                                            !.args = args,
                                            !.data = AdapterData(args),
                                            !.res = res]
      /\ Deliver(res)
      /\ UNCHANGED <<config, heap, origin, active, crashed>>

\* an open or a write of the file stream fails (disk full, permission
\* denied): the stream emits 'error', for which no listener was registered
StreamError ==
  /\ ~crashed
  /\ logFileStream.open
  /\ crashed' = TRUE
  /\ last' = Op("streamError", NoStore, 0)
  /\ UNCHANGED <<config, destinations, heap, origin, active>>

(***************************************************************************)
(* The context engine under the default configuration: chains established  *)
(* in every way, interleaved at every step, with attempts to spoof the     *)
(* reserved fields through addContext.                                     *)
(***************************************************************************)
Next ==
  \/ \E s \in Callers, seed \in Seeds : WithContext(s, seed, Returned)
  \/ \E req \in Requests : Middleware(NoStore, req)
  \/ \E s \in Callers, f \in SpoofFields : AddContext(s, f)
  \/ \E s \in Callers : captureContext(s)
  \/ \E s \in Callers, r \in 1..Len(heap) : runWithCapturedContext(s, r)
  \/ \E r \in active : ChainEnds(r)
  \/ \E s \in Callers, l \in ChainLevels, m \in Messages, d \in PlainData :
       Log(s, l, m, d)

Spec == Init /\ [][Next]_vars

(***************************************************************************)
(* The custom fields of a record: business fields added, overwritten,      *)
(* captured and restored.                                                  *)
(***************************************************************************)
NextCustom ==
  \/ \E seed \in CustomSeeds : WithContext(NoStore, seed, Returned)
  \/ \E s \in Callers, f \in BusinessFields : AddContext(s, f)
  \/ \E s \in Callers : captureContext(s)
  \/ \E s \in Callers, r \in 1..Len(heap) : runWithCapturedContext(s, r)
  \/ \E r \in active : ChainEnds(r)
  \/ \E s \in Callers, m \in Messages : Log(s, "info", m, Undef)

SpecCustom == Init /\ [][NextCustom]_vars

(***************************************************************************)
(* The emission pipeline behind the intercepted console, configured as     *)
(* documented, with serializable and cyclic payloads.                      *)
(***************************************************************************)
NextConsole ==
  \/ \E o \in ValidOptions : replaceConsole(o)
  \/ \E seed \in ConsoleSeeds :
       Len(heap) < MaxConsoleRec /\ WithContext(NoStore, seed, Returned)
  \/ \E s \in Callers, f \in CyclicFields : AddContext(s, f)
  \/ \E s \in Callers, l \in LevelNames, m \in Messages,
        d \in PlainData \cup CyclicData : Log(s, l, m, d)
  \/ \E s \in Callers, c \in ConsoleMethods, a \in OrdinaryArgs :
       ConsoleCall(s, c, a)

SpecConsole == Init /\ [][NextConsole]_vars

(***************************************************************************)
(* The same layer with no assumption on its callers or on the file system. *)
(***************************************************************************)
NextAny ==
  \/ \E o \in AnyOptions : replaceConsole(o)
  \/ \E seed \in ConsoleSeeds :
       Len(heap) < MaxConsoleRec /\ WithContext(NoStore, seed, Returned)
  \/ \E s \in Callers, c \in ConsoleMethods, a \in OrdinaryArgs \cup HostileArgs :
       ConsoleCall(s, c, a)
  \/ StreamError

SpecAny == Init /\ [][NextAny]_vars

(***************************************************************************)
(* The establishment of a context: requests through the middleware, seeds  *)
(* through withContext, and the log calls of the chains they start.        *)
(***************************************************************************)
NextEstablish ==
  \/ \E req \in EstablishRequests : Middleware(NoStore, req)
  \/ \E s \in Callers, seed \in EstablishSeeds, fn \in FnOutcomes :
       WithContext(s, seed, fn)
  \/ \E r \in active : ChainEnds(r)
  \/ \E s \in Callers, l \in ChainLevels, d \in PlainData :
       Log(s, l, Str("contact created"), d)

SpecEstablish == Init /\ [][NextEstablish]_vars

(***************************************************************************)
(* The resolution of the identity: request objects of every shape with     *)
(* every configured path, and the log calls of the requests.               *)
(***************************************************************************)
NextResolve ==
  \/ \E req \in ResolveRequests : Middleware(NoStore, req)
  \/ \E r \in active : ChainEnds(r)
  \/ \E s \in Callers, m \in Messages : Log(s, "info", m, Undef)

SpecResolve == Init /\ [][NextResolve]_vars

(***************************************************************************)
(* The record of a chain through its life: fields added under it, also     *)
(* with the names of the identity, captures, restores and nested chains.   *)
(***************************************************************************)
NextRecord ==
  \/ \E s \in Callers, seed \in CustomSeeds : WithContext(s, seed, Returned)
  \/ \E s \in Callers, f \in RecordFields : AddContext(s, f)
  \/ \E s \in Callers : captureContext(s)
  \/ \E s \in Callers, r \in 1..Len(heap) : runWithCapturedContext(s, r)
  \/ \E r \in active : ChainEnds(r)
  \/ \E s \in Callers, m \in Messages : Log(s, "info", m, Undef)

SpecRecord == Init /\ [][NextRecord]_vars

(***************************************************************************)
(* The merge of the custom fields with the structured data of a call.      *)
(***************************************************************************)
NextMerge ==
  \/ \E seed \in CustomSeeds : WithContext(NoStore, seed, Returned)
  \/ \E s \in Callers, f \in BusinessFields : AddContext(s, f)
  \/ \E r \in active : ChainEnds(r)
  \/ \E s \in Callers, m \in Messages, d \in MergeData : Log(s, "info", m, d)

SpecMerge == Init /\ [][NextMerge]_vars

(***************************************************************************)
(* Chains nested in chains: withContext called by code of a chain that has *)
(* an identity and custom fields.                                          *)
(***************************************************************************)
NextNested ==
  \/ \E s \in Callers, seed \in NestedSeeds : WithContext(s, seed, Returned)
  \/ \E s \in Callers, f \in NestedFields : AddContext(s, f)
  \/ \E r \in active : ChainEnds(r)
  \/ \E s \in Callers, m \in Messages : Log(s, "info", m, Undef)

SpecNested == Init /\ [][NextNested]_vars

(***************************************************************************)
(* Log calls whose structured data refers to one object more than once,    *)
(* inside and outside chains with and without custom fields.               *)
(***************************************************************************)
NextShared ==
  \/ \E seed \in CustomSeeds : WithContext(NoStore, seed, Returned)
  \/ \E s \in Callers, f \in NestedFields : AddContext(s, f)
  \/ \E r \in active : ChainEnds(r)
  \/ \E s \in Callers, l \in ChainLevels, m \in Messages, d \in SharedData :
       Log(s, l, m, d)

SpecShared == Init /\ [][NextShared]_vars

(***************************************************************************)
(* The destinations: log calls of interleaved chains after one             *)
(* initialization, and the file stream writing what it was handed.         *)
(***************************************************************************)
NextOrder ==
  \/ \E o \in OrderOptions : installs = 0 /\ replaceConsole(o)
  \/ \E seed \in ConsoleSeeds :
       Len(heap) < MaxConsoleRec /\ WithContext(NoStore, seed, Returned)
  \/ \E s \in Callers, l \in {"info", "error"}, m \in Messages :
       Log(s, l, m, Undef)
  \/ FileWritten

SpecOrder == InitOrder /\ [][NextOrder]_vars

(***************************************************************************)
(* Properties.                                                             *)
(***************************************************************************)
\* the lines an operation handed to its destinations
Lines(res) ==
  {res.file[i].line : i \in DOMAIN res.file} \cup {res.con[i].line : i \in DOMAIN res.con}

Wrote(res) == res.file # <<>> \/ res.con # <<>>

IsLogCall == last.op \in {"log", "console"}

\* the JSON document of a string or null
JOf(val) == IF val.t = "string" THEN JStr(val.v) ELSE JNull

\* C1 - Chain isolation: whatever the interleaving of the steps of the
\* chains, every line written by a log call that runs in a continuation of
\* chain A carries the userId and the txId of the record established for
\* A, hence never those of another chain B with a distinct record.
ChainIsolation ==
  (IsLogCall /\ last.store # NoStore) =>
    \A line \in Lines(last.res) :
      /\ Has(line, "userId") /\ Has(line, "txId")
      /\ Field(line, "userId") = JOf(Coalesce(heap[last.store].userId, Null))
      /\ Field(line, "txId") = JOf(Coalesce(heap[last.store].txId, Null))

\* a log call of chain A has written its line while a chain B established
\* later, with another userId and another txId, is still running
ChainIsolationWitness ==
  /\ IsLogCall /\ Wrote(last.res)
  /\ last.store \in active
  /\ \E b \in active :
       /\ b > last.store
       /\ heap[b].userId # heap[last.store].userId
       /\ heap[b].txId # heap[last.store].txId

\* C2 - Reserved-field protection: whatever addContext has put in the custom
\* mapping, a log call that passes the gate raises nothing and writes a line
\* whose ts, level, msg, userId and txId are those of the draft assembled
\* from the clock, the call and the identity of the record, never values of
\* the custom mapping; with msg "spoof" and level "error" in the custom
\* mapping, log.info("real") writes msg "real" and level "info".
ReservedFieldsProtected ==
  (last.op = "log" /\ ~last.res.gated) =>
    /\ ~last.res.raised
    /\ Wrote(last.res)
    /\ \A line \in Lines(last.res) :
         /\ \A f \in RESERVED_FIELDS :
              /\ Has(line, f)
              /\ Field(line, f) =
                   JOf(DraftEntry(last.level, last.message, last.data,
                                  ChainRecord(last.store))[f])
         /\ (last.level = "info" /\ last.message = Str("real")) =>
              /\ Field(line, "msg") = JStr("real")
              /\ Field(line, "level") = JStr("info")

\* log.info("real") has written a line in a chain whose custom mapping
\* holds all five reserved names
ReservedFieldsWitness ==
  /\ last.op = "log" /\ last.level = "info" /\ last.message = Str("real")
  /\ Wrote(last.res)
  /\ last.store # NoStore
  /\ RESERVED_FIELDS \subseteq DOMAIN heap[last.store].custom
  /\ heap[last.store].custom["msg"] = Str("spoof")
  /\ heap[last.store].custom["level"] = Str("error")

\* C3 - Level gating: a log call at level L writes a line to some
\* destination if and only if L ranks at or above the configured minimum
\* level; with minimum warn the debug and info calls write nothing and the
\* warn and error calls write, with minimum none no call writes; a gated
\* call raises nothing and changes neither the context records nor the
\* configuration.
LevelGating ==
  [][ (last'.op \in {"log", "console"}) =>
        /\ Wrote(last'.res) <=> (LOG_LEVELS[last'.level] >= currentLevel)
        /\ (currentLevel = LOG_LEVELS.warn) =>
             (Wrote(last'.res) <=> last'.level \in {"warn", "error"})
        /\ (currentLevel = LOG_LEVELS.none) => ~Wrote(last'.res)
        /\ (LOG_LEVELS[last'.level] < currentLevel) =>
             /\ last'.res = [NoWrites EXCEPT !.gated = TRUE]
             /\ UNCHANGED <<config, heap, origin, active, crashed>>
    ]_vars

\* with minimum warn, an info call made inside a chain was gated
LevelGatingWitness ==
  /\ IsLogCall /\ last.level = "info" /\ last.res.gated
  /\ currentLevel = LOG_LEVELS.warn
  /\ last.store # NoStore

\* the keys the business fields of addContext use
CustomKeys == UNION {DOMAIN f : f \in BusinessFields}

\* C4 - addContext visibility: addContext sets each key it names on the
\* record of its chain; a custom key of a record keeps its value, through
\* every step of every chain, until an addContext made under that record
\* names it again; every line a log call writes in the chain shows each
\* non-reserved custom key of the record with its value; a log call outside
\* every established chain shows none of these keys.
AddContextVisible ==
  [][ /\ (last'.op = "addContext" /\ last'.store # NoStore) =>
           \A k \in DOMAIN last'.fields :
             /\ k \in DOMAIN heap'[last'.store].custom
             /\ heap'[last'.store].custom[k] = last'.fields[k]
      /\ \A r \in 1..Len(heap) : \A k \in DOMAIN heap[r].custom :
           /\ k \in DOMAIN heap'[r].custom
           /\ (heap'[r].custom[k] # heap[r].custom[k]) =>
                /\ last'.op = "addContext" /\ last'.store = r
                /\ k \in DOMAIN last'.fields
      /\ (last'.op = "log" /\ ~last'.res.gated) =>
           /\ Wrote(last'.res)
           /\ \A line \in Lines(last'.res) :
                IF last'.store = NoStore
                THEN \A k \in CustomKeys : ~Has(line, k)
                ELSE \A k \in (DOMAIN heap[last'.store].custom) \ RESERVED_FIELDS :
                       /\ Has(line, k)
                       /\ Field(line, k) = JOf(heap[last'.store].custom[k])
    ]_vars

\* a log call of a chain shows the overwritten orderId and the invoiceId
\* added with it, while the record of another chain holds the first orderId
AddContextWitness ==
  /\ last.op = "log" /\ Wrote(last.res) /\ last.store \in active
  /\ \A line \in Lines(last.res) :
       /\ Has(line, "orderId") /\ Field(line, "orderId") = JStr("o-2")
       /\ Has(line, "invoiceId")
  /\ \E r \in 1..Len(heap) :
       /\ r # last.store /\ origin[r].how = "withContext"
       /\ "orderId" \in DOMAIN heap[r].custom
       /\ heap[r].custom["orderId"] = Str("o-1")

\* the captured objects that were taken while a record was active
CapturedUnderRecord(r) ==
  /\ r # NoStore
  /\ origin[r].how = "captured"
  /\ origin[r].first.hasCustom

\* C5 as stated - Capture/restore round trip: every log call made under a
\* restored captured object shows the userId, the txId and exactly the
\* custom fields the record had at the moment of capture.
CaptureRoundTripAsStated ==
  (last.op = "log" /\ CapturedUnderRecord(last.store)) =>
    \A line \in Lines(last.res) :
      /\ Field(line, "userId") = JOf(Coalesce(origin[last.store].first.userId, Null))
      /\ Field(line, "txId") = JOf(Coalesce(origin[last.store].first.txId, Null))
      /\ \A k \in CustomKeys :
           IF k \in DOMAIN origin[last.store].first.custom
           THEN Has(line, k)
                /\ Field(line, k) = JOf(origin[last.store].first.custom[k])
           ELSE ~Has(line, k)

\* C5 - Capture/restore round trip, amended: every log call made under a
\* restored captured object shows the userId and the txId the record had at
\* the moment of capture and, for every custom key that no addContext made
\* under the restored object has named since, the value the record had at
\* that moment (or no value if it had none); what addContext did to the
\* originating record after the capture never shows.
CaptureRoundTrip ==
  (last.op = "log" /\ CapturedUnderRecord(last.store)) =>
    \A line \in Lines(last.res) :
      /\ Field(line, "userId") = JOf(Coalesce(origin[last.store].first.userId, Null))
      /\ Field(line, "txId") = JOf(Coalesce(origin[last.store].first.txId, Null))
      /\ \A k \in CustomKeys \ origin[last.store].touched :
           IF k \in DOMAIN origin[last.store].first.custom
           THEN Has(line, k)
                /\ Field(line, k) = JOf(origin[last.store].first.custom[k])
           ELSE ~Has(line, k)

\* a log call has written under a restored object, captured with an orderId,
\* after every other chain has finished and after the originating record
\* was given another orderId
CaptureRoundTripWitness ==
  /\ last.op = "log" /\ Wrote(last.res)
  /\ CapturedUnderRecord(last.store)
  /\ active = {last.store}
  /\ origin[last.store].touched = {}
  /\ "orderId" \in DOMAIN origin[last.store].first.custom
  /\ \E r \in 1..Len(heap) :
       /\ origin[r].how = "withContext"
       /\ "orderId" \in DOMAIN heap[r].custom
       /\ heap[r].custom["orderId"] # origin[last.store].first.custom["orderId"]

\* C6 - Configuration error: replaceConsole called with output file or both
\* and no filePath fails during the call, and no log call that passes the
\* level gate and returns is left without a destination.
ConfigErrorSurfaced ==
  /\ (/\ last.op = "replaceConsole"
      /\ last.opts.output \in {"file", "both"}
      /\ last.opts.filePath = "") => last.res.raised
  /\ (IsLogCall /\ ~last.res.gated /\ ~last.res.raised) => Wrote(last.res)

\* C7 - Logging never fails the caller: every call of an intercepted console
\* entry point returns normally, whatever its arguments and the context.
LoggingNeverRaises ==
  (last.op = "console") => ~last.res.raised

\* C8 - Sink write failures are contained: a failure of the file stream
\* does not terminate the host program.
SinkFailureContained ==
  (last.op = "streamError") => ~crashed

\* the payload of the call just made holds a reference cycle
CyclicPayload ==
  \/ last.data = Ref("cyclic")
  \/ /\ last.store # NoStore
     /\ "cart" \in DOMAIN heap[last.store].custom
     /\ heap[last.store].custom["cart"] = Ref("loop")

\* C9 - Circular structured data: a log call that passes the gate with a
\* reference cycle in its data or in a custom field raises nothing and
\* hands one line (the same to each configured destination, once), which
\* is a JSON object with the normal ts, level, userId, txId and msg and
\* with "[Circular]" in place of the reference that closes the cycle.
CircularDataSerialized ==
  (IsLogCall /\ ~last.res.gated /\ CyclicPayload) =>
    /\ ~last.res.raised /\ ~last.res.fallback
    /\ Wrote(last.res)
    /\ Len(last.res.file) <= 1 /\ Len(last.res.con) <= 1
    /\ Cardinality(Lines(last.res)) = 1
    /\ \A line \in Lines(last.res) :
         /\ line.t = "object"
         /\ Field(line, "ts") = JOf(NowISO)
         /\ Field(line, "level") = JStr(last.level)
         /\ Field(line, "userId") = JOf(Coalesce(ChainRecord(last.store).userId, Null))
         /\ Field(line, "txId") = JOf(Coalesce(ChainRecord(last.store).txId, Null))
         /\ Field(line, "msg") = JStr("real")
         /\ (last.data = Ref("cyclic")) =>
              Field(line, "self") = JObj("self" :> CircularMarker)
         /\ (last.store # NoStore /\ "cart" \in DOMAIN heap[last.store].custom) =>
              Field(line, "cart") = JObj("self" :> CircularMarker)

\* a call with cyclic data, in a chain whose custom field is cyclic too, has
\* written to the file and to the console
CircularDataWitness ==
  /\ IsLogCall /\ last.data = Ref("cyclic")
  /\ last.store # NoStore /\ "cart" \in DOMAIN heap[last.store].custom
  /\ Len(last.res.file) = 1 /\ Len(last.res.con) = 1

\* C10 - Re-installation is safe: after one or more replaceConsole calls, a
\* call of an intercepted console entry point that passes the gate returns
\* and writes exactly one line to the console if and only if the console
\* is a configured destination, exactly one line to the file if and only
\* if the file is, and the console line goes through the primitive of the
\* runtime saved before the first replacement.
ReinstallSafe ==
  (last.op = "console" /\ ~last.res.gated) =>
    /\ installs >= 1
    /\ ~last.res.raised
    /\ Len(last.res.con) = (IF outputMode \in {"console", "both"} THEN 1 ELSE 0)
    /\ Len(last.res.file) = (IF outputMode \in {"file", "both"} THEN 1 ELSE 0)
    /\ \A i \in DOMAIN last.res.con :
         /\ last.res.con[i].fn = SinkMethod(last.level)
         /\ last.res.con[i].stream = Native(SinkMethod(last.level)).stream
    /\ \A i \in DOMAIN last.res.file :
         last.res.file[i].path = logFileStream.path /\ last.res.file[i].newline

\* after a second replaceConsole, console.warn has written one line to the
\* file and one to the console
ReinstallWitness ==
  /\ last.op = "console" /\ last.level = "warn"
  /\ installs >= 2
  /\ outputMode = "both"
  /\ Len(last.res.con) = 1 /\ Len(last.res.file) = 1

\* C11 - Output mode dispatch: with the filePath supplied whenever the mode
\* needs it, every log call that passes the level gate hands its line once
\* to the console if and only if the mode is console or both, and once,
\* followed by a newline, to the file of the configuration if and only if
\* the mode is file or both; nothing goes to a destination outside the mode.
OutputModeDispatch ==
  (IsLogCall /\ ~last.res.gated) =>
    /\ (outputMode \in {"console", "both"}) => Len(last.res.con) = 1
    /\ (outputMode \notin {"console", "both"}) => last.res.con = <<>>
    /\ (outputMode \in {"file", "both"}) =>
         /\ Len(last.res.file) = 1
         /\ last.res.file[1].newline
         /\ last.res.file[1].path = logFileStream.path
    /\ (outputMode \notin {"file", "both"}) => last.res.file = <<>>
    /\ Cardinality(Lines(last.res)) = 1

\* log.info has written to the console alone although the stream of an
\* earlier file configuration is still open
OutputModeWitness ==
  /\ last.op = "log" /\ last.level = "info"
  /\ outputMode = "console" /\ logFileStream.open
  /\ Len(last.res.con) = 1 /\ last.res.file = <<>>

\* the id the generator returns for the record created as number n
GeneratedId(n) == Str("uuid-" \o ToString(n))

\* every line of a log call made under a record shows the userId and the
\* txId the record was established with
LogsCarryEstablished(how) ==
  (last.op = "log" /\ last.store # NoStore /\ origin[last.store].how = how) =>
    \A line \in Lines(last.res) :
      /\ Has(line, "userId") /\ Has(line, "txId")
      /\ Field(line, "userId") = JOf(origin[last.store].first.userId)
      /\ Field(line, "txId") = JOf(origin[last.store].first.txId)

\* identity "alex_123", header "abc-789", info message "contact created"
ContactCreatedExample ==
  (/\ last.op = "log" /\ last.store # NoStore
   /\ origin[last.store].how = "middleware"
   /\ origin[last.store].first.userId = Str("alex_123")
   /\ origin[last.store].first.txId = Str("abc-789")
   /\ last.level = "info" /\ last.message = Str("contact created")) =>
    /\ Wrote(last.res)
    /\ \A line \in Lines(last.res) :
         /\ Field(line, "level") = JStr("info")
         /\ Field(line, "userId") = JStr("alex_123")
         /\ Field(line, "txId") = JStr("abc-789")
         /\ Field(line, "msg") = JStr("contact created")

\* C12 as stated - Request establishment: the correlation id is the value
\* of the inbound header whenever the header is present, and the
\* generator's value otherwise; the response carries that id; the log
\* calls of the request show it with the identity read from the request.
RequestEstablishedAsStated ==
  /\ (last.op = "middleware") =>
       /\ heap[last.target].txId =
            (IF last.req.header.t = "string" THEN last.req.header
             ELSE GeneratedId(last.target))
       /\ last.header = heap[last.target].txId
       /\ heap[last.target].userId =
            (IF last.req.obj = "full" THEN Str("alex_123") ELSE Null)
  /\ LogsCarryEstablished("middleware")
  /\ ContactCreatedExample

\* C12 - Request establishment, amended: the correlation id is the value of
\* the inbound header when the header is present with a non-empty value,
\* and the generator's value otherwise (also for a header that is present
\* but empty); the response is tagged with that same id; every log call of
\* the request shows that id as txId and the identity read from the
\* request as userId; identity "alex_123" with header "abc-789" and info
\* message "contact created" yields exactly those fields at level info.
RequestEstablished ==
  /\ (last.op = "middleware") =>
       /\ heap[last.target].txId =
            (IF last.req.header.t = "string" /\ last.req.header.v # ""
             THEN last.req.header
             ELSE GeneratedId(last.target))
       /\ last.header = heap[last.target].txId
       /\ heap[last.target].userId =
            (IF last.req.obj = "full" THEN Str("alex_123") ELSE Null)
  /\ LogsCarryEstablished("middleware")
  /\ ContactCreatedExample

\* log.info("contact created") has written under the record of the request
\* of alex_123 with header abc-789 while a request whose id was generated
\* is still being handled
RequestEstablishedWitness ==
  /\ last.op = "log" /\ last.level = "info" /\ Wrote(last.res)
  /\ last.store \in active
  /\ origin[last.store].how = "middleware"
  /\ heap[last.store].userId = Str("alex_123")
  /\ heap[last.store].txId = Str("abc-789")
  /\ \E r \in active :
       /\ origin[r].how = "middleware"
       /\ heap[r].txId = GeneratedId(r)

\* C13 - withContext seeding: the record of withContext(seed, fn) holds
\* seed.userId and seed.txId as given when they are present, null for an
\* absent userId and for an absent txId an id generated for this record,
\* which no other record has; every log call of the chain shows the userId
\* and the txId the record was created with; the call returns what fn
\* returns (also a pending promise) and throws what fn throws.
WithContextSeeding ==
  /\ (last.op = "withContext") =>
       /\ heap[last.target].userId =
            (IF last.seed.userId.t = "string" THEN last.seed.userId ELSE Null)
       /\ heap[last.target].txId =
            (IF last.seed.txId.t = "string" THEN last.seed.txId
             ELSE GeneratedId(last.target))
       /\ (last.seed.txId.t # "string") =>
            \A r \in 1..Len(heap) :
              r # last.target => heap[r].txId # heap[last.target].txId
       /\ last.fn \in FnOutcomes
       /\ last.ret = last.fn
  /\ \A r \in 1..Len(heap) :
       /\ heap[r].txId = origin[r].first.txId
       /\ heap[r].userId = origin[r].first.userId
  /\ LogsCarryEstablished("withContext")

\* a log call has written the generated id of its chain while another chain
\* seeded with an explicit txId is running
WithContextSeedingWitness ==
  /\ last.op = "log" /\ Wrote(last.res)
  /\ last.store \in active
  /\ origin[last.store].how = "withContext"
  /\ heap[last.store].txId = GeneratedId(last.store)
  /\ heap[last.store].userId = Str("alice")
  /\ \A line \in Lines(last.res) :
       Field(line, "txId") = JOf(GeneratedId(last.store))
  /\ \E r \in active : r # last.store /\ heap[r].txId = Str("tx-a")

\* C14 - addContext without a context is a silent no-op: called where no
\* record is active, addContext raises nothing and changes neither a record
\* nor the configuration; a record starts with the custom fields of its
\* seed only, and a line shows a custom key only if the record of the
\* calling chain was captured with it or an addContext made under that
\* record named it, so the dropped fields show in no chain.
AddContextWithoutContext ==
  [][ /\ (last'.op = "addContext" /\ last'.store = NoStore) =>
           /\ ~last'.res.raised
           /\ UNCHANGED <<config, heap, origin, active, crashed>>
      /\ (last'.op = "withContext") =>
           heap'[last'.target].custom = EmptyObj
      /\ (last'.op = "log") =>
           \A line \in Lines(last'.res) : \A k \in CustomKeys :
             Has(line, k) =>
               /\ last'.store # NoStore
               /\ k \in origin[last'.store].touched
                        \cup DOMAIN origin[last'.store].first.custom
    ]_vars

\* addContext has just been called outside every chain while a chain with
\* no custom field is running
AddContextWithoutContextWitness ==
  /\ last.op = "addContext" /\ last.store = NoStore
  /\ "orderId" \in DOMAIN last.fields
  /\ \E r \in active : heap[r].custom = EmptyObj

\* C15 - Logging outside any context: a log call that passes the gate where
\* no record is active raises nothing and writes a line with userId null,
\* txId null and no custom field; captureContext called there yields a
\* record with no property.
LoggingOutsideContext ==
  /\ (last.op = "log" /\ last.store = NoStore /\ ~last.res.gated) =>
       /\ ~last.res.raised /\ ~last.res.fallback
       /\ Wrote(last.res)
       /\ \A line \in Lines(last.res) :
            /\ Has(line, "userId") /\ Field(line, "userId") = JNull
            /\ Has(line, "txId") /\ Field(line, "txId") = JNull
            /\ \A k \in CustomKeys : ~Has(line, k)
            /\ (last.data = Undef) => DOMAIN line.props = RESERVED_FIELDS
  /\ (last.op = "captureContext" /\ last.store = NoStore) =>
       /\ heap[last.target] = EmptyRecord
       /\ ~last.res.raised

\* a log call outside every chain has written while a running chain holds
\* an orderId
LoggingOutsideContextWitness ==
  /\ last.op = "log" /\ last.store = NoStore /\ Wrote(last.res)
  /\ \E r \in active : "orderId" \in DOMAIN heap[r].custom

\* C16 - Re-initialization overwrites the configuration: right after any
\* replaceConsole call the minimum level, the output mode and the file that
\* receives lines are those its options determine by themselves (defaults
\* for the omitted ones); no file opened by an earlier call still receives
\* lines.
ReinitOverwrites ==
  (last.op = "replaceConsole") =>
    LET mode == IF last.opts.output = "" THEN "console" ELSE last.opts.output
        wantsFile == last.opts.filePath # "" /\ mode \in {"file", "both"}
        writesFile == logFileStream.open /\ outputMode \in {"file", "both"}
    IN  /\ currentLevel = (IF last.opts.level \in DOMAIN LOG_LEVELS
                           THEN LOG_LEVELS[last.opts.level]
                           ELSE LOG_LEVELS.info)
        /\ outputMode = mode
        /\ writesFile <=> wantsFile
        /\ writesFile => logFileStream.path = "/app/" \o last.opts.filePath

\* C17 - Authoritative fields under caller data: whatever keys the data
\* holds, a call that passes the gate and serializes normally writes the
\* level of the entry point called, one of debug, info, warn, error, and
\* the userId and txId of the active record (null without a record).
AuthoritativeFields ==
  (IsLogCall /\ ~last.res.gated /\ ~last.res.raised /\ ~last.res.fallback) =>
    \A line \in Lines(last.res) :
      /\ last.level \in LevelNames
      /\ Field(line, "level") = JStr(last.level)
      /\ Field(line, "userId") = JOf(Coalesce(ChainRecord(last.store).userId, Null))
      /\ Field(line, "txId") = JOf(Coalesce(ChainRecord(last.store).txId, Null))

\* data holding a value JSON cannot express (a BigInt)
UnsupportedData == { Ref("big"), Ref("tsbig") }

\* C18 - Serialization fallback: a call that passes the gate with data that
\* cannot be serialized raises nothing and hands to each destination that
\* is configured one line, the JSON object made of the timestamp, level
\* "error", the fixed failure notice as msg and the original message as
\* text, with none of the data.
SerializationFallback ==
  (IsLogCall /\ ~last.res.gated /\ last.data \in UnsupportedData) =>
    /\ ~last.res.raised
    /\ last.res.fallback
    /\ (outputMode \in {"console", "both"}) => Len(last.res.con) = 1
    /\ (outputMode \in {"file", "both"} /\ logFileStream.open) =>
         Len(last.res.file) = 1
    /\ \A line \in Lines(last.res) :
         line = JObj("ts" :> JOf(NowISO) @@ "level" :> JStr("error")
                     @@ "msg" :> JStr(FailureNotice)
                     @@ "originalMsg" :> JStr(ToStr(last.message)))

\* C19 - Console stream routing: every line handed to the console goes to
\* the error stream if and only if the level field of that line is error
\* or warn, and to the standard output otherwise, fallback lines included.
ConsoleStreamRouting ==
  IsLogCall =>
    \A i \in DOMAIN last.res.con :
      /\ last.res.con[i].stream \in {"stderr", "stdout"}
      /\ (last.res.con[i].stream = "stderr") <=>
           (Field(last.res.con[i].line, "level") \in {JStr("error"), JStr("warn")})

\* C20 - Adapter argument mapping: the first argument of an intercepted
\* console call becomes msg as text; one remaining plain object gives its
\* fields to the event and no args; any other remaining arguments (one
\* value that is not an object, one null, one array, two or more) appear
\* in order as args; with nothing remaining the event has neither.
AdapterArgumentMapping ==
  (/\ last.op = "console" /\ Len(last.args) >= 1
   /\ ~last.res.gated /\ ~last.res.raised /\ ~last.res.fallback) =>
    LET rest == Tail(last.args)
    IN  \A line \in Lines(last.res) :
          /\ Field(line, "msg") = JStr(ToStr(last.args[1]))
          /\ CASE Len(rest) = 0 ->
                    DOMAIN line.props = RESERVED_FIELDS
               [] Len(rest) = 1 /\ rest[1].t = "object" ->
                    /\ ~Has(line, "args")
                    /\ \A k \in DOMAIN ArgObjects[rest[1].v].props : Has(line, k)
               [] OTHER ->
                    /\ Has(line, "args")
                    /\ Field(line, "args") = Walk(Arr(rest), {}, TRUE).j
                    /\ DOMAIN line.props = RESERVED_FIELDS \cup {"args"}

\* the values met along the path of a request: the request object, then
\* for each segment the property of that name of the value before it, and
\* nothing (undefined) when that value is no object or has no such property
AlongPath(req) ==
  LET at[i \in 0..Len(req.path)] ==
        IF i = 0 THEN ReqRef(req.obj)
        ELSE IF /\ at[i - 1].t = "reqobject"
                /\ req.path[i] \in DOMAIN RequestObjects[at[i - 1].v]
             THEN RequestObjects[at[i - 1].v][req.path[i]]
             ELSE Undef
  IN  at

\* C21 - Identity resolution is total: for every request object and every
\* dotted userIdPath the handler raises nothing; when a segment of the path
\* or the terminal field is undefined or null, at whatever depth, the
\* record of the request has userId null, otherwise it has the value found;
\* next runs inside the new record, and the log calls of the request show
\* that userId.
IdentityResolutionTotal ==
  /\ (last.op = "middleware") =>
       LET at == AlongPath(last.req)
           missing == \E i \in 1..Len(last.req.path) :
                        at[i].t \in {"null", "undefined"}
       IN  /\ ~last.res.raised
           /\ last.target \in active
           /\ last.target = Len(heap)
           /\ heap[last.target].userId =
                (IF missing THEN Null ELSE at[Len(last.req.path)])
  /\ (IsLogCall /\ last.store # NoStore) =>
       /\ ~last.res.raised
       /\ \A line \in Lines(last.res) :
            Field(line, "userId") = JOf(heap[last.store].userId)

\* a request whose user is null has been handled with the three-segment
\* path, and one whose identity was found is still being handled
IdentityResolutionWitness ==
  /\ last.op = "middleware"
  /\ last.req.obj = "nulluser"
  /\ last.req.path = <<"user", "profile", "id">>
  /\ last.target \in active
  /\ heap[last.target].userId = Null
  /\ \E r \in active : heap[r].userId = Str("alex_123")

\* the record r holds the identity it was created with, and its custom
\* fields are those it was created with except for the keys that addContext
\* calls made under r have named
OwnChangesOnly(r) ==
  /\ heap[r].userId = origin[r].first.userId
  /\ heap[r].txId = origin[r].first.txId
  /\ \A k \in (DOMAIN heap[r].custom \cup DOMAIN origin[r].first.custom)
               \ origin[r].touched :
       /\ k \in DOMAIN heap[r].custom
       /\ k \in DOMAIN origin[r].first.custom
       /\ heap[r].custom[k] = origin[r].first.custom[k]

\* C22 - Nested establishment is scoped: when withContext or
\* runWithCapturedContext is called by code of a chain with record R, the
\* nested function runs under the nested record while the chain of the
\* caller keeps R, unchanged by the call; whatever the interleaving, every
\* log call shows the identity of the record of the chain it runs in, the
\* nested record inside the nested function and R in the outer chain.
NestedScoped ==
  /\ (/\ last.op \in {"withContext", "runWithCapturedContext"}
      /\ last.store # NoStore) =>
       /\ last.store \in active
       /\ last.target \in active
       /\ OwnChangesOnly(last.store)
  /\ (last.op = "log" /\ last.store # NoStore) =>
       /\ OwnChangesOnly(last.store)
       /\ \A line \in Lines(last.res) :
            /\ Field(line, "userId") =
                 JOf(Coalesce(origin[last.store].first.userId, Null))
            /\ Field(line, "txId") =
                 JOf(Coalesce(origin[last.store].first.txId, Null))

\* withContext has just been called by code of a chain that is still
\* running, with a seed that gives the nested record another userId and
\* another txId
NestedScopedWitness ==
  /\ last.op = "withContext"
  /\ last.store # NoStore /\ last.store # last.target
  /\ last.store \in active /\ last.target \in active
  /\ heap[last.target].userId # heap[last.store].userId
  /\ heap[last.target].txId # heap[last.store].txId

\* C23 - Record invariant: through addContext, log, captureContext and
\* nested establishment steps the userId and the txId of every record stay
\* what they were, also when addContext names the keys userId or txId; no
\* step removes a custom key of a record; an addContext call gives each key
\* it names the value it passes, the last call winning, and leaves every
\* other key of the record with its value; a log call shows the identity
\* the record was established with.
RecordInvariant ==
  [][ /\ \A r \in 1..Len(heap) :
           /\ heap'[r].userId = heap[r].userId
           /\ heap'[r].txId = heap[r].txId
           /\ DOMAIN heap[r].custom \subseteq DOMAIN heap'[r].custom
           /\ \A k \in DOMAIN heap[r].custom :
                \/ heap'[r].custom[k] = heap[r].custom[k]
                \/ /\ last'.op = "addContext" /\ last'.store = r
                   /\ k \in DOMAIN last'.fields
           /\ \A k \in DOMAIN heap'[r].custom \ DOMAIN heap[r].custom :
                /\ last'.op = "addContext" /\ last'.store = r
                /\ k \in DOMAIN last'.fields
      /\ (last'.op = "addContext" /\ last'.store # NoStore) =>
           \A k \in DOMAIN last'.fields :
             /\ k \in DOMAIN heap'[last'.store].custom
             /\ heap'[last'.store].custom[k] = last'.fields[k]
      /\ (last'.op = "log" /\ last'.store # NoStore) =>
           \A line \in Lines(last'.res) :
             /\ Field(line, "userId") = JOf(origin[last'.store].first.userId)
             /\ Field(line, "txId") = JOf(origin[last'.store].first.txId)
    ]_vars

\* a log call has written under a record established by withContext after
\* addContext named userId and txId under it and a later addContext
\* replaced the orderId, the record still holding the identity of its seed
RecordInvariantWitness ==
  /\ last.op = "log" /\ Wrote(last.res) /\ last.store \in active
  /\ origin[last.store].how = "withContext"
  /\ {"userId", "txId", "orderId"} \subseteq DOMAIN heap[last.store].custom
  /\ heap[last.store].custom["orderId"] = Str("o-2")
  /\ heap[last.store].custom["userId"] = Str("mallory")
  /\ heap[last.store].userId = Str("alice")
  /\ heap[last.store].txId = Str("tx-a")

\* C24 - Snapshot independence: the object captureContext returned keeps
\* the identity and the custom fields of the moment of capture whatever
\* addContext does afterwards in the originating chain, so that log calls
\* of a later restore show the fields of that moment and none added to the
\* originating record since; addContext made under a restored object
\* changes neither the originating record nor the custom fields its log
\* calls show.  (Only addContext made under the captured object itself
\* changes what that object holds.)
SnapshotIndependent ==
  /\ \A r \in 1..Len(heap) : OwnChangesOnly(r)
  /\ (last.op = "log" /\ last.store # NoStore) =>
       \A line \in Lines(last.res) :
         \A k \in CustomKeys :
           IF k \in origin[last.store].touched
           THEN /\ Has(line, k)
                /\ Field(line, k) = JOf(heap[last.store].custom[k])
           ELSE IF k \in DOMAIN origin[last.store].first.custom
                THEN /\ Has(line, k)
                     /\ Field(line, k) = JOf(origin[last.store].first.custom[k])
                ELSE ~Has(line, k)

\* addContext has just been called under a restored object that was
\* captured from a running chain before that chain had any custom field,
\* and the originating record still has none
SnapshotIndependentWitness ==
  /\ last.op = "addContext" /\ last.store \in active
  /\ CapturedUnderRecord(last.store)
  /\ "orderId" \in DOMAIN heap[last.store].custom
  /\ \E r \in active :
       /\ origin[r].how = "withContext"
       /\ heap[r].txId = heap[last.store].txId
       /\ DOMAIN heap[r].custom = {}

\* C25 - Custom context wins over call data: for every key that is not
\* reserved and is present in the structured data of a log call, the line
\* carries the value of the custom mapping of the active record when the
\* mapping has that key, and the value of the call data when it has not
\* (also when there is no active record); the custom keys the data does not
\* name are carried too.
CustomWinsOverData ==
  (last.op = "log" /\ last.data.t = "object") =>
    LET data == ArgObjects[last.data.v].props
        custom == IF last.store = NoStore THEN EmptyObj
                  ELSE heap[last.store].custom
    IN  /\ Wrote(last.res)
        /\ \A line \in Lines(last.res) :
             /\ \A k \in DOMAIN data \ RESERVED_FIELDS :
                  /\ Has(line, k)
                  /\ Field(line, k) =
                       (IF k \in DOMAIN custom THEN JOf(custom[k])
                        ELSE JOf(data[k]))
             /\ \A k \in DOMAIN custom \ RESERVED_FIELDS :
                  Has(line, k) /\ Field(line, k) = JOf(custom[k])

\* a log call whose data has orderId d-9 and a cart has written under a
\* record whose custom mapping has orderId o-2, while another record has
\* no custom field
CustomWinsWitness ==
  /\ last.op = "log" /\ last.data = Ref("order") /\ Wrote(last.res)
  /\ last.store \in active
  /\ "orderId" \in DOMAIN heap[last.store].custom
  /\ heap[last.store].custom["orderId"] = Str("o-2")
  /\ \A line \in Lines(last.res) :
       /\ Field(line, "orderId") = JStr("o-2")
       /\ Field(line, "cart") = JStr("c-2")
  /\ \E r \in 1..Len(heap) : DOMAIN heap[r].custom = {}

\* C26 - Branches of one chain share one record: every log call made by
\* whatever continuation of a chain established by withContext shows, for
\* each key that an addContext call made earlier by whatever continuation
\* of the same chain has named, the value the record holds for it, whenever
\* the logging continuation was forked; it shows no key that only
\* addContext calls of other, separately established chains have named.
BranchesShareRecord ==
  (/\ last.op = "log" /\ last.store # NoStore
   /\ origin[last.store].how = "withContext") =>
    /\ Wrote(last.res)
    /\ \A line \in Lines(last.res) :
         \A k \in CustomKeys :
           IF k \in origin[last.store].touched
           THEN /\ k \in DOMAIN heap[last.store].custom
                /\ Has(line, k)
                /\ Field(line, k) = JOf(heap[last.store].custom[k])
           ELSE ~Has(line, k)

\* a continuation of a chain logs the orderId o-1 that addContext gave the
\* chain, and no invoiceId, while a chain established separately is
\* running with orderId o-2 and an invoiceId
BranchesShareWitness ==
  /\ last.op = "log" /\ Wrote(last.res) /\ last.store \in active
  /\ origin[last.store].how = "withContext"
  /\ origin[last.store].touched = {"orderId"}
  /\ \A line \in Lines(last.res) :
       Field(line, "orderId") = JStr("o-1") /\ ~Has(line, "invoiceId")
  /\ \E r \in active :
       /\ r # last.store /\ origin[r].how = "withContext"
       /\ origin[r].touched = {"orderId", "invoiceId"}
       /\ heap[r].custom["orderId"] = Str("o-2")

\* C27 - A nested withContext inherits nothing: the record of
\* withContext(seed, fn) called by code of a chain has userId null when
\* the seed has none, a generated txId that no other record has when the
\* seed has none, and exactly the custom fields of the seed; the events
\* emitted inside fn carry a custom field only if the seed supplied it or
\* addContext named it inside fn; no record changes through addContext
\* calls made under another one, the enclosing record included.
NestedInheritsNothing ==
  /\ (last.op = "withContext" /\ last.store # NoStore) =>
       LET nested == heap[last.target]
           seed == last.seed
       IN  /\ nested.userId =
                (IF seed.userId.t = "undefined" THEN Null ELSE seed.userId)
           /\ IF seed.txId.t = "undefined"
              THEN /\ nested.txId = GeneratedId(last.target)
                   /\ \A r \in 1..Len(heap) :
                        r # last.target => heap[r].txId # nested.txId
              ELSE nested.txId = seed.txId
           /\ nested.custom = (IF seed.hasCustom THEN seed.custom ELSE EmptyObj)
           /\ origin[last.target].first = nested
  /\ \A r \in 1..Len(heap) : OwnChangesOnly(r)
  /\ (last.op = "log" /\ last.store # NoStore) =>
       /\ Wrote(last.res)
       /\ \A line \in Lines(last.res) :
            /\ Field(line, "userId") = JOf(origin[last.store].first.userId)
            /\ Field(line, "txId") = JOf(origin[last.store].first.txId)
            /\ \A k \in {"orderId", "invoiceId"} :
                 Has(line, k) <=>
                   k \in DOMAIN origin[last.store].first.custom
                            \cup origin[last.store].touched

\* withContext has just been called with an empty seed by code of the
\* chain of alice, whose record has an orderId: the nested record has no
\* userId, a generated txId and no custom field
NestedInheritsWitness ==
  /\ last.op = "withContext"
  /\ last.store \in active /\ last.target \in active
  /\ last.seed.userId = Undef /\ last.seed.txId = Undef
  /\ ~last.seed.hasCustom
  /\ heap[last.store].userId = Str("alice")
  /\ "orderId" \in DOMAIN heap[last.store].custom
  /\ heap[last.target].userId = Null
  /\ heap[last.target].txId = GeneratedId(last.target)
  /\ DOMAIN heap[last.target].custom = {}

\* C28 - The cycle marker only for true cycles: a log call whose structured
\* data has no cycle writes, for every key of the data, the value in full,
\* as JSON.stringify gives it without a replacer, also where the data
\* refers to one object under two keys or at two depths; the line has no
\* "[Circular]" marker.
MarkerOnlyForCycles ==
  (last.op = "log" /\ last.data \in SharedData /\ ~last.res.gated) =>
    /\ Wrote(last.res)
    /\ \A line \in Lines(last.res) :
         \A k \in DOMAIN ArgObjects[last.data.v].props :
           /\ Has(line, k)
           /\ Field(line, k) = Walk(ArgObjects[last.data.v].props[k], {}, FALSE).j

\* the numbers of the calls grow along the sequence
InCallOrder(lines) ==
  \A i, j \in 1..Len(lines) : i < j => lines[i].n < lines[j].n

\* C29 - Order preservation per destination: whatever the interleaving of
\* the chains, the lines in the file followed by those the stream still
\* holds, and the lines on the console, are each in the order in which
\* the log calls were executed; a log call that hands a line to the file
\* stream returns with the line held by the stream, not yet in the file.
OrderPreserved ==
  /\ InCallOrder(destinations.disk \o destinations.pending)
  /\ InCallOrder(destinations.con)
  /\ (last.op = "log" /\ last.res.file # <<>>) =>
       LET held == destinations.pending
       IN  /\ held # <<>>
           /\ held[Len(held)].n = destinations.calls
           /\ held[Len(held)].line = last.res.file[1].line
           /\ \A i \in 1..Len(destinations.disk) :
                destinations.disk[i].n < destinations.calls
  /\ (last.op = "log" /\ last.res.con # <<>>) =>
       /\ destinations.con # <<>>
       /\ destinations.con[Len(destinations.con)].n = destinations.calls
       /\ destinations.con[Len(destinations.con)].line = last.res.con[1].line

\* the file holds the line of a first call made inside a chain, the stream
\* still holds the line of a second call made outside every chain, and a
\* third call has just returned with its line behind it; the console has
\* the three lines
OrderPreservedWitness ==
  /\ last.op = "log" /\ destinations.calls = 3
  /\ Len(destinations.disk) = 1 /\ Len(destinations.pending) = 2
  /\ Len(destinations.con) = 3
  /\ Field(destinations.disk[1].line, "userId") = JStr("alice")
  /\ Field(destinations.pending[1].line, "userId") = JNull

====
